---- MODULE Spec2Model ----
(***************************************************************************)
(* Gesture-driven mouse control: MouseController (the action dispatcher)   *)
(* and the loops that feed it (TrackingWindow.tracking_loop).              *)
(*                                                                         *)
(* Time is counted in tenths of a second; time.time() is the variable now. *)
(* Normalized coordinates are counted in hundredths.  A scroll angle is   *)
(* the exact fraction <<n, d>>, d > 0.                                     *)
(***************************************************************************)
EXTENDS Integers, Sequences, FiniteSets, TLC

VARIABLES
  mouse_enabled,      \* MouseController.mouse_enabled
  last_click_time,    \* MouseController.last_click_time
  dragging,           \* MouseController.dragging (fist drag)
  pinch_dragging,     \* MouseController.pinch_dragging (thumb-index pinch drag)
  pinch_start_time,   \* MouseController.pinch_start_time
  now,                \* the clock read by time.time()
  emitted,            \* pyautogui calls made by the last call, in order
  raised,             \* the last call ended with an exception
  lastCall,           \* history: the last call made on the controller
  prevUp,             \* history: the call before it emitted ButtonUp
  pressed,            \* history: mouseDown emissions minus mouseUp emissions
  lastOnset,          \* history: time of the last thumb-index pinch onset
  hold,               \* history: the current or latest run of pinch frames
  idleRun,            \* history: the current run of consecutive Idle calls
  rightAge,           \* history: time since the last RightClick emission
  pressAge,           \* history: time since the last ButtonDown of an index pinch
  is_running,         \* TrackingWindow.is_running
  tracking_pc,        \* position of the tracking thread
  stop_pc,            \* position of the UI thread in TrackingWindow.stop
  lastFrame,          \* history: what the last tracking_loop iteration did
  previous_landmarks, \* GestureRecognizer.previous_landmarks
  test_mouse_enabled, \* the mouse_enabled of test_hand_gestures.main
  test_pc,            \* position of the loop of test_hand_gestures.main
  baseline_gap,       \* history: a frame without hand came after the frame
                      \* that previous_landmarks holds
  lastTest,           \* history: what the last iteration of that loop did
  pure,               \* a single function applied to a drawn input
  thumb_recognizer,   \* ThumbGestureRecognizer: last_click_time,
                      \* last_gesture_time, was_touching
  lastThumb           \* history: what the last frame of that recognizer was

vars == <<mouse_enabled, last_click_time, dragging, pinch_dragging,
          pinch_start_time, now, emitted, raised, lastCall, prevUp,
          pressed, lastOnset, hold, idleRun, rightAge, pressAge, is_running,
          tracking_pc,
          stop_pc, lastFrame, previous_landmarks, test_mouse_enabled, test_pc,
          baseline_gap, lastTest, pure, thumb_recognizer, lastThumb>>

callVars == <<mouse_enabled, last_click_time, dragging, pinch_dragging,
              pinch_start_time, emitted, raised, lastCall, prevUp,
              pressed, lastOnset, hold, idleRun>>

ctlVars == <<callVars, rightAge, pressAge>>

trackVars == <<is_running, tracking_pc, stop_pc, lastFrame>>

testVars ==
  <<previous_landmarks, test_mouse_enabled, test_pc, baseline_gap, lastTest>>

thumbVars == <<thumb_recognizer, lastThumb>>

otherVars == <<now, ctlVars, trackVars, testVars, thumbVars>>

----------------------------------------------------------------------------
(* Configuration (config/settings.py), in the model's units *)

DOUBLE_CLICK_THRESHOLD == 4

CLICK_HOLD_TIME == 1

SCROLL_SENSITIVITY == 3

SCROLL_ANGLE_THRESHOLD == 15

PINCH_THRESHOLD == 4

(* Bounds of the model *)

StartTime == 5

MaxTime == 10

ScreenWidth == 4

ScreenHeight == 3

MaxHold == 2

MaxControlTime == 6

----------------------------------------------------------------------------
(* Values *)

None == <<>>

Positions == {None, <<50, 50>>}

Zero == <<0, 1>>

Angles == {<<-100, 100>>, <<10, 100>>, <<50, 100>>}

Act(a, x, y) == [a |-> a, x |-> x, y |-> y]

ButtonDown == Act("ButtonDown", 0, 0)

ButtonUp == Act("ButtonUp", 0, 0)

Click == Act("Click", 0, 0)

RightClick == Act("RightClick", 0, 0)

DoubleClick == Act("DoubleClick", 0, 0)

Move(x, y) == Act("Move", x, y)

Scroll(d) == Act("Scroll", d, 0)

NoGesture == [present |-> FALSE, type |-> "", angle |-> Zero]

Gesture(type, angle) == [present |-> TRUE, type |-> type, angle |-> angle]

gesture_actions ==
  {"cursor_point", "thumb_index_pinch", "thumb_middle_pinch", "fist", "open_hand"}

GestureTypes == gesture_actions \cup {"peace_sign", "None"}

Gestures ==
  {NoGesture} \cup {Gesture(ty, Zero) : ty \in GestureTypes}
              \cup {Gesture("thumb_scroll", a) : a \in Angles}

Count(seq, a) == Cardinality({i \in DOMAIN seq : seq[i].a = a})

Has(seq, a) == \E i \in DOMAIN seq : seq[i].a = a

Max(a, b) == IF a > b THEN a ELSE b

Min(a, b) == IF a < b THEN a ELSE b

(* Python's int(): truncation toward zero of n / d, d > 0 *)
Trunc(n, d) == IF n >= 0 THEN n \div d ELSE -((-n) \div d)

Abs(n) == IF n >= 0 THEN n ELSE -n

----------------------------------------------------------------------------
(* MouseController: each method maps the controller state s to the state   *)
(* after the call; s.out collects the pyautogui calls, t is time.time().   *)

Self ==
  [mouse_enabled |-> mouse_enabled, last_click_time |-> last_click_time,
   dragging |-> dragging, pinch_dragging |-> pinch_dragging,
   pinch_start_time |-> pinch_start_time, out |-> <<>>, raised |-> FALSE]

Emit(s, a) == [s EXCEPT !.out = Append(@, a)]

(* move_mouse without the max/min clamp of lines 92-93 *)
move_mouse_no_clamp(s, position) ==
  IF ~s.mouse_enabled \/ position = None THEN s
  ELSE Emit(s, Move(Trunc(position[1] * ScreenWidth, 100),
                    Trunc(position[2] * ScreenHeight, 100)))

move_mouse(s, position) ==
  IF ~s.mouse_enabled \/ position = None THEN s
  ELSE LET screen_x == Trunc(position[1] * ScreenWidth, 100)
           screen_y == Trunc(position[2] * ScreenHeight, 100)
       IN Emit(s, Move(Max(0, Min(screen_x, ScreenWidth - 1)),
                       Max(0, Min(screen_y, ScreenHeight - 1))))

double_click(s) ==
  IF ~s.mouse_enabled THEN s ELSE Emit(s, DoubleClick)

(* handle_left_click_or_drag without the return after double_click() *)
handle_left_click_or_drag_no_return(s, mouse_pos, t) ==
  IF ~s.mouse_enabled THEN s
  ELSE IF ~s.pinch_dragging
       THEN LET s1 == IF t - s.last_click_time < DOUBLE_CLICK_THRESHOLD
                      THEN double_click(s) ELSE s
            IN [Emit(s1, ButtonDown) EXCEPT !.pinch_start_time = t,
                                            !.pinch_dragging = TRUE,
                                            !.last_click_time = t]
       ELSE IF mouse_pos # None THEN move_mouse(s, mouse_pos) ELSE s

handle_left_click_or_drag(s, mouse_pos, t) ==
  IF ~s.mouse_enabled THEN s
  ELSE IF ~s.pinch_dragging
       THEN IF t - s.last_click_time < DOUBLE_CLICK_THRESHOLD
            THEN double_click(s)
            ELSE [Emit(s, ButtonDown) EXCEPT !.pinch_start_time = t,
                                             !.pinch_dragging = TRUE,
                                             !.last_click_time = t]
       ELSE IF mouse_pos # None THEN move_mouse(s, mouse_pos) ELSE s

(* end_pinch_drag that leaves pinch_dragging set *)
end_pinch_drag_keeps_flag(s, t) ==
  IF s.pinch_dragging THEN Emit(s, ButtonUp) ELSE s

(* end_pinch_drag that does not reset pinch_start_time *)
end_pinch_drag_keeps_start_time(s, t) ==
  IF s.pinch_dragging
  THEN [Emit(s, ButtonUp) EXCEPT !.pinch_dragging = FALSE]
  ELSE s

end_pinch_drag(s, t) ==
  IF s.pinch_dragging
  THEN [Emit(s, ButtonUp) EXCEPT !.pinch_dragging = FALSE,
                                 !.pinch_start_time = 0]
  ELSE s

left_click(s, t) ==
  IF ~s.mouse_enabled THEN s
  ELSE IF t - s.last_click_time > CLICK_HOLD_TIME
       THEN [Emit(s, Click) EXCEPT !.last_click_time = t]
       ELSE s

(* right_click without the CLICK_HOLD_TIME debounce *)
right_click_no_debounce(s, mouse_pos, t) ==
  IF ~s.mouse_enabled THEN s
  ELSE [Emit(s, RightClick) EXCEPT !.last_click_time = t]

right_click(s, mouse_pos, t) ==
  IF ~s.mouse_enabled THEN s
  ELSE IF t - s.last_click_time > CLICK_HOLD_TIME
       THEN [Emit(s, RightClick) EXCEPT !.last_click_time = t]
       ELSE s

(* handle_scroll that passes scroll_speed on without negating it *)
handle_scroll_not_negated(s, angle) ==
  IF ~s.mouse_enabled THEN s
  ELSE LET scroll_speed == Trunc(angle[1] * SCROLL_SENSITIVITY * 2, angle[2])
       IN IF scroll_speed >= 1 \/ scroll_speed <= -1
          THEN Emit(s, Scroll(scroll_speed))
          ELSE s

(* handle_scroll without the doubling of the sensitivity *)
handle_scroll_not_doubled(s, angle) ==
  IF ~s.mouse_enabled THEN s
  ELSE LET scroll_speed == Trunc(angle[1] * SCROLL_SENSITIVITY, angle[2])
       IN IF scroll_speed >= 1 \/ scroll_speed <= -1
          THEN Emit(s, Scroll(-scroll_speed))
          ELSE s

(* handle_scroll without the minimum threshold on scroll_speed *)
handle_scroll_no_minimum(s, angle) ==
  IF ~s.mouse_enabled THEN s
  ELSE LET scroll_speed == Trunc(angle[1] * SCROLL_SENSITIVITY * 2, angle[2])
       IN Emit(s, Scroll(-scroll_speed))

handle_scroll(s, angle) ==
  IF ~s.mouse_enabled THEN s
  ELSE LET scroll_speed == Trunc(angle[1] * SCROLL_SENSITIVITY * 2, angle[2])
       IN IF scroll_speed >= 1 \/ scroll_speed <= -1
          THEN Emit(s, Scroll(-scroll_speed))
          ELSE s

(* drag_start without the check of self.dragging *)
drag_start_no_guard(s) ==
  IF ~s.mouse_enabled THEN s
  ELSE [Emit(s, ButtonDown) EXCEPT !.dragging = TRUE]

(* drag_start that does not look at mouse_enabled *)
drag_start_when_disabled(s) ==
  IF s.dragging THEN s
  ELSE [Emit(s, ButtonDown) EXCEPT !.dragging = TRUE]

drag_start(s) ==
  IF ~s.mouse_enabled \/ s.dragging THEN s
  ELSE [Emit(s, ButtonDown) EXCEPT !.dragging = TRUE]

drag_end(s) ==
  IF ~s.mouse_enabled \/ ~s.dragging THEN s
  ELSE [Emit(s, ButtonUp) EXCEPT !.dragging = FALSE]

set_mouse_enabled(s, enabled) ==
  LET s1 == [s EXCEPT !.mouse_enabled = enabled]
  IN IF enabled THEN s1
     ELSE LET s2 == IF s1.dragging THEN drag_end(s1) ELSE s1
          IN IF s2.pinch_dragging THEN end_pinch_drag(s2, 0) ELSE s2

(* The call gesture_actions[gesture_type](...) of process_gesture.  A     *)
(* cursor_point without a position reaches the final else and calls       *)
(* move_mouse() without its required argument: TypeError.                 *)
dispatch_action(s, gesture_type, mouse_pos, t) ==
  IF gesture_type = "cursor_point" /\ mouse_pos # None
  THEN move_mouse(s, mouse_pos)
  ELSE IF gesture_type = "thumb_index_pinch"
  THEN handle_left_click_or_drag(s, mouse_pos, t)
  ELSE IF gesture_type = "thumb_middle_pinch"
  THEN right_click(s, mouse_pos, t)
  ELSE IF gesture_type = "fist" THEN drag_start(s)
  ELSE IF gesture_type = "open_hand" THEN drag_end(s)
  ELSE [s EXCEPT !.raised = TRUE]

(* process_gesture whose no-gesture branch leaves the pinch-drag alone *)
process_gesture_idle_keeps_drag(s, gesture_data, mouse_pos, t) ==
  IF ~s.mouse_enabled \/ ~gesture_data.present
  THEN s
  ELSE LET gesture_type == gesture_data.type
       IN IF gesture_type = "None"
          THEN [s EXCEPT !.raised = TRUE]
          ELSE IF gesture_type = "thumb_scroll"
          THEN handle_scroll(s, gesture_data.angle)
          ELSE LET s1 == IF gesture_type # "thumb_index_pinch" /\ s.pinch_dragging
                         THEN end_pinch_drag(s, t)
                         ELSE s
               IN IF gesture_type \in gesture_actions
                  THEN dispatch_action(s1, gesture_type, mouse_pos, t)
                  ELSE s1

(* process_gesture without lines 64-66: a different gesture does not end  *)
(* the pinch-drag                                                          *)
process_gesture_no_release(s, gesture_data, mouse_pos, t) ==
  IF ~s.mouse_enabled \/ ~gesture_data.present
  THEN IF s.pinch_dragging THEN end_pinch_drag(s, t) ELSE s
  ELSE LET gesture_type == gesture_data.type
       IN IF gesture_type = "None"
          THEN [s EXCEPT !.raised = TRUE]
          ELSE IF gesture_type = "thumb_scroll"
          THEN handle_scroll(s, gesture_data.angle)
          ELSE IF gesture_type \in gesture_actions
          THEN dispatch_action(s, gesture_type, mouse_pos, t)
          ELSE s

(* process_gesture that does not scroll while a fist-drag is active *)
process_gesture_no_scroll_in_drag(s, gesture_data, mouse_pos, t) ==
  IF ~s.mouse_enabled \/ ~gesture_data.present
  THEN IF s.pinch_dragging THEN end_pinch_drag(s, t) ELSE s
  ELSE LET gesture_type == gesture_data.type
       IN IF gesture_type = "None"
          THEN [s EXCEPT !.raised = TRUE]
          ELSE IF gesture_type = "thumb_scroll"
          THEN IF s.dragging THEN s ELSE handle_scroll(s, gesture_data.angle)
          ELSE LET s1 == IF gesture_type # "thumb_index_pinch" /\ s.pinch_dragging
                         THEN end_pinch_drag(s, t)
                         ELSE s
               IN IF gesture_type \in gesture_actions
                  THEN dispatch_action(s1, gesture_type, mouse_pos, t)
                  ELSE s1

process_gesture(s, gesture_data, mouse_pos, t) ==
  IF ~s.mouse_enabled \/ ~gesture_data.present
  THEN IF s.pinch_dragging THEN end_pinch_drag(s, t) ELSE s
  ELSE LET gesture_type == gesture_data.type
       IN IF gesture_type = "None"
          THEN [s EXCEPT !.raised = TRUE]
          ELSE IF gesture_type = "thumb_scroll"
          THEN handle_scroll(s, gesture_data.angle)
          ELSE LET s1 == IF gesture_type # "thumb_index_pinch" /\ s.pinch_dragging
                         THEN end_pinch_drag(s, t)
                         ELSE s
               IN IF gesture_type \in gesture_actions
                  THEN dispatch_action(s1, gesture_type, mouse_pos, t)
                  ELSE s1

----------------------------------------------------------------------------
(* History kept beside the program state *)

Kind(g) == IF g.present THEN g.type ELSE "Idle"

(* prev: the kind of the call before, as far as the claims tell kinds     *)
(* apart; sinceClick: time since last_click_time when the call was made,  *)
(* rightGap: time since the RightClick before the one this call emitted   *)
(* (-1: none); rightAge and both are counted up to CLICK_HOLD_TIME + 1;    *)
(* pressGap: time since the last ButtonDown of an index pinch when this   *)
(* call emitted DoubleClick (DOUBLE_CLICK_THRESHOLD: none or longer ago,   *)
(* -1: no DoubleClick)                                                     *)
CallRec(op, g, s) ==
  [op |-> op, kind |-> Kind(g), up |-> Has(s.out, "ButtonUp"),
   prePinch |-> pinch_dragging, preDrag |-> dragging,
   prev |-> IF lastCall.kind \in {"fist", "thumb_index_pinch"}
            THEN lastCall.kind ELSE "other",
   sinceClick |-> Min(now - last_click_time, CLICK_HOLD_TIME + 1),
   rightGap |-> IF Has(s.out, "RightClick") THEN rightAge ELSE -1,
   pressGap |-> IF ~Has(s.out, "DoubleClick") THEN -1
                ELSE IF pressAge = -1 THEN DOUBLE_CLICK_THRESHOLD
                ELSE pressAge]

NoCall ==
  [op |-> "none", kind |-> "none", up |-> FALSE, prePinch |-> FALSE,
   preDrag |-> FALSE, prev |-> "other", sinceClick |-> CLICK_HOLD_TIME + 1,
   rightGap |-> -1, pressGap |-> -1]

(* outside: the run began at or beyond the double-click window after      *)
(* last_click_time; rest: the actions emitted by the frames of the run    *)
(* after its first                                                         *)
NoHold ==
  [gap |-> "none", prevPress |-> FALSE, onsetPinch |-> FALSE,
   onsetOut |-> <<>>, dc |-> 0, down |-> 0, outside |-> FALSE, rest |-> {}]

NoIdleRun == [ups |-> 0, startPinch |-> FALSE]

IsPinch(c) == c.op = "process_gesture" /\ c.kind = "thumb_index_pinch"

IsIdle(c) == c.op = "process_gesture" /\ c.kind = "Idle"

(* hold after a process_gesture call with a thumb-index pinch: an onset    *)
(* is a pinch frame that does not follow a pinch frame                     *)
HoldAfter(s) ==
  LET base == IF IsPinch(lastCall)
              THEN [hold EXCEPT !.rest = @ \cup {s.out[i].a : i \in DOMAIN s.out}]
              ELSE [gap |-> IF lastOnset = 0 THEN "first"
                            ELSE IF now - lastOnset < DOUBLE_CLICK_THRESHOLD
                            THEN "within"
                            ELSE IF now - lastOnset > DOUBLE_CLICK_THRESHOLD
                            THEN "beyond" ELSE "edge",
                    prevPress |-> hold.onsetOut = <<ButtonDown>>,
                    onsetPinch |-> pinch_dragging,
                    onsetOut |-> s.out, dc |-> 0, down |-> 0,
                    outside |-> now - last_click_time >= DOUBLE_CLICK_THRESHOLD,
                    rest |-> {}]
  IN [base EXCEPT !.dc = @ + Count(s.out, "DoubleClick"),
                  !.down = @ + Count(s.out, "ButtonDown")]

IdleRunAfter(s) ==
  LET base == IF IsIdle(lastCall) THEN idleRun
              ELSE [ups |-> 0, startPinch |-> pinch_dragging]
  IN [base EXCEPT !.ups = Min(2, @ + Count(s.out, "ButtonUp"))]

(* The controller state and history after a call that led from Self to s *)
Commit(op, g, s) ==
  /\ mouse_enabled' = s.mouse_enabled
  /\ last_click_time' = s.last_click_time
  /\ dragging' = s.dragging
  /\ pinch_dragging' = s.pinch_dragging
  /\ pinch_start_time' = s.pinch_start_time
  /\ emitted' = s.out
  /\ raised' = s.raised
  /\ prevUp' = lastCall.up
  /\ lastCall' = CallRec(op, g, s)
  /\ rightAge' = IF Has(s.out, "RightClick") THEN 0 ELSE rightAge
  /\ pressAge' = IF s.pinch_dragging /\ ~pinch_dragging
                    /\ Has(s.out, "ButtonDown")
                 THEN 0 ELSE pressAge
  /\ pressed' = pressed + Count(s.out, "ButtonDown") - Count(s.out, "ButtonUp")
  /\ LET pinch == op = "process_gesture" /\ Kind(g) = "thumb_index_pinch"
         idle == op = "process_gesture" /\ Kind(g) = "Idle"
     IN /\ lastOnset' = IF pinch /\ ~IsPinch(lastCall) THEN now ELSE lastOnset
        /\ hold' = IF pinch THEN HoldAfter(s) ELSE hold
        /\ idleRun' = IF idle THEN IdleRunAfter(s) ELSE idleRun

(* bound on the frames of one pinch run that the model follows *)
HoldGuard(g) ==
  Kind(g) = "thumb_index_pinch" /\ IsPinch(lastCall) => hold.dc < MaxHold

----------------------------------------------------------------------------
_get_thumb_angle_no_guard(tip, mcp) ==
  LET vx == tip[1] - mcp[1]
      vy == tip[2] - mcp[2]
      m2 == vx * vx + vy * vy
      n == 8 * vy * vy * vy
      d == 100 * m2
  IN IF n >= d THEN <<1, 1>>
     ELSE IF n <= -d THEN <<-1, 1>>
     ELSE <<n, d>>

(* GestureRecognizer._get_thumb_angle on the x, y of the thumb tip and the *)
(* thumb MCP joint: vertical_component * 8 * vertical_ratio ** 2, clipped  *)
(* to [-1, 1]; 0 when the vector is shorter than 0.01                      *)
_get_thumb_angle(tip, mcp) ==
  LET vx == tip[1] - mcp[1]
      vy == tip[2] - mcp[2]
      m2 == vx * vx + vy * vy
      n == 8 * vy * vy * vy
      d == 100 * m2
  IN IF m2 < 1 THEN Zero
     ELSE IF n >= d THEN <<1, 1>>
     ELSE IF n <= -d THEN <<-1, 1>>
     ELSE <<n, d>>

(* abs(thumb_angle) > SCROLL_ANGLE_THRESHOLD *)
ExceedsScrollThreshold(a) == Abs(a[1]) * 100 > SCROLL_ANGLE_THRESHOLD * a[2]

(* _classify_gesture from its scroll check on, for a hand without pinch   *)
(* whose only extended finger is the thumb (total_fingers = 1, thumb_up)  *)
classify_thumb_only(tip, mcp) ==
  LET thumb_angle == _get_thumb_angle(tip, mcp)
  IN IF ExceedsScrollThreshold(thumb_angle)
     THEN Gesture("thumb_scroll", thumb_angle)
     ELSE Gesture("cursor_point", Zero)

(* Landmark sets: the thumb tip at (0.50, 0.50, 0), the other landmarks   *)
(* around it; a joint only matters by its y                                *)
Joint(y) == <<50, y, 0>>

Hand(mcp, ipy, it, mt, py) ==
  [i \in {2, 3, 4, 6, 8, 10, 12, 14, 16, 18, 20} |->
     CASE i = 4 -> <<50, 50, 0>>
       [] i = 2 -> mcp
       [] i = 3 -> Joint(ipy)
       [] i = 8 -> it
       [] i = 6 -> Joint(py[1])
       [] i = 12 -> mt
       [] i = 10 -> Joint(py[2])
       [] i = 16 -> Joint(50)
       [] i = 14 -> Joint(py[3])
       [] i = 20 -> Joint(50)
       [] i = 18 -> Joint(py[4])]

(* Landmark indices of _classify_gesture and _get_thumb_angle *)
THUMB_MCP == 2

THUMB_IP == 3

THUMB_TIP == 4

INDEX_PIP == 6

INDEX_TIP == 8

MIDDLE_PIP == 10

MIDDLE_TIP == 12

RING_PIP == 14

RING_TIP == 16

PINKY_PIP == 18

PINKY_TIP == 20

(* the square of np.sqrt(np.sum((a - b) ** 2)) over x, y and z *)
Dist2(a, b) ==
  (a[1] - b[1]) * (a[1] - b[1]) + (a[2] - b[2]) * (a[2] - b[2])
    + (a[3] - b[3]) * (a[3] - b[3])

(* fingers_up: the digits whose tip has a smaller y than its joint *)
fingers_up(positions) ==
  {f \in {<<THUMB_TIP, THUMB_IP>>, <<INDEX_TIP, INDEX_PIP>>,
           <<MIDDLE_TIP, MIDDLE_PIP>>, <<RING_TIP, RING_PIP>>,
           <<PINKY_TIP, PINKY_PIP>>} :
     positions[f[1]][2] < positions[f[2]][2]}

(* the classification from the finger count on (lines 114-120) *)
classify_count(total_fingers) ==
  IF total_fingers = 0 THEN Gesture("fist", Zero)
  ELSE IF total_fingers = 5 THEN Gesture("open_hand", Zero)
  ELSE Gesture("cursor_point", Zero)

(* _classify_gesture that checks the middle pinch before the index pinch *)
_classify_gesture_middle_first(positions) ==
  LET thumb_pos == positions[THUMB_TIP]
      total_fingers == Cardinality(fingers_up(positions))
      thumb_up == <<THUMB_TIP, THUMB_IP>> \in fingers_up(positions)
      thumb_angle == _get_thumb_angle(positions[THUMB_TIP], positions[THUMB_MCP])
  IN IF Dist2(thumb_pos, positions[MIDDLE_TIP]) < PINCH_THRESHOLD * PINCH_THRESHOLD
     THEN Gesture("thumb_middle_pinch", Zero)
     ELSE IF Dist2(thumb_pos, positions[INDEX_TIP]) < PINCH_THRESHOLD * PINCH_THRESHOLD
     THEN Gesture("thumb_index_pinch", Zero)
     ELSE IF total_fingers = 1 /\ thumb_up /\ ExceedsScrollThreshold(thumb_angle)
     THEN Gesture("thumb_scroll", thumb_angle)
     ELSE classify_count(total_fingers)

(* _classify_gesture that takes four extended fingers for an open hand *)
_classify_gesture_four_is_open(positions) ==
  LET thumb_pos == positions[THUMB_TIP]
      total_fingers == Cardinality(fingers_up(positions))
      thumb_up == <<THUMB_TIP, THUMB_IP>> \in fingers_up(positions)
      thumb_angle == _get_thumb_angle(positions[THUMB_TIP], positions[THUMB_MCP])
  IN IF Dist2(thumb_pos, positions[INDEX_TIP]) < PINCH_THRESHOLD * PINCH_THRESHOLD
     THEN Gesture("thumb_index_pinch", Zero)
     ELSE IF Dist2(thumb_pos, positions[MIDDLE_TIP]) < PINCH_THRESHOLD * PINCH_THRESHOLD
     THEN Gesture("thumb_middle_pinch", Zero)
     ELSE IF total_fingers = 1 /\ thumb_up /\ ExceedsScrollThreshold(thumb_angle)
     THEN Gesture("thumb_scroll", thumb_angle)
     ELSE IF total_fingers >= 4 THEN Gesture("open_hand", Zero)
     ELSE classify_count(total_fingers)

(* _classify_gesture: the type string as a gesture record, the angle of   *)
(* "thumb_scroll:<angle>" in its angle field                               *)
_classify_gesture(positions) ==
  LET thumb_pos == positions[THUMB_TIP]
      total_fingers == Cardinality(fingers_up(positions))
      thumb_up == <<THUMB_TIP, THUMB_IP>> \in fingers_up(positions)
      thumb_angle == _get_thumb_angle(positions[THUMB_TIP], positions[THUMB_MCP])
  IN IF Dist2(thumb_pos, positions[INDEX_TIP]) < PINCH_THRESHOLD * PINCH_THRESHOLD
     THEN Gesture("thumb_index_pinch", Zero)
     ELSE IF Dist2(thumb_pos, positions[MIDDLE_TIP]) < PINCH_THRESHOLD * PINCH_THRESHOLD
     THEN Gesture("thumb_middle_pinch", Zero)
     ELSE IF total_fingers = 1 /\ thumb_up /\ ExceedsScrollThreshold(thumb_angle)
     THEN Gesture("thumb_scroll", thumb_angle)
     ELSE classify_count(total_fingers)

(* get_mouse_position: the x, y of the thumb tip *)
get_mouse_position(landmarks) ==
  IF landmarks = None THEN None
  ELSE <<landmarks[THUMB_TIP][1], landmarks[THUMB_TIP][2]>>

(* the z_diff below which detect_click_gesture reports a tap is -0.05 *)
TapDepth == 5

detect_click_gesture_keeps_baseline(previous, current_landmarks) ==
  IF previous = None
  THEN [previous_landmarks |-> current_landmarks, click_gesture |-> "None"]
  ELSE LET z_diff == current_landmarks[INDEX_TIP][3] - previous[INDEX_TIP][3]
       IN IF z_diff < -TapDepth
          THEN [previous_landmarks |-> current_landmarks,
                click_gesture |-> "tap"]
          ELSE [previous_landmarks |-> previous, click_gesture |-> "None"]

(* detect_click_gesture on self.previous_landmarks = previous: the new    *)
(* previous_landmarks and the returned value (None or "tap")              *)
detect_click_gesture(previous, current_landmarks) ==
  IF previous = None
  THEN [previous_landmarks |-> current_landmarks, click_gesture |-> "None"]
  ELSE LET z_diff == current_landmarks[INDEX_TIP][3] - previous[INDEX_TIP][3]
       IN [previous_landmarks |-> current_landmarks,
           click_gesture |-> IF z_diff < -TapDepth THEN "tap" ELSE "None"]

----------------------------------------------------------------------------
(* GestureRecognizer as seen by its callers: process_frame returns None    *)
(* when no hand is found, else a dict whose type _classify_gesture chose   *)

RecognizerGestures ==
  {NoGesture}
    \cup {Gesture(ty, Zero) : ty \in gesture_actions}
    \cup {Gesture("thumb_scroll", a) :
            a \in {b \in Angles : ExceedsScrollThreshold(b)}}

(* get_mouse_position: the thumb tip of the landmarks, never None here *)
ThumbPositions == Positions \ {None}

----------------------------------------------------------------------------
(* ThumbGestureRecognizer (thumb_gesture_recognizer.py), the recognizer   *)
(* GestureControlApp builds                                                *)

(* seconds, in tenths *)
double_click_threshold == 5

click_cooldown == 1

(* normalized distance, in hundredths *)
touch_threshold == 6

(* __init__, lines 23-32 *)
NewThumbRecognizer ==
  [last_click_time |-> 0, last_gesture_time |-> 0, was_touching |-> FALSE]

ClickEvents == {"thumb_index_click", "thumb_index_double_click"}

(* the landmarks _classify_thumb_gesture reads: the thumb tip is fixed,   *)
(* the index tip touches it or not, the thumb MCP lies below or above it  *)
ThumbHand(index_tip, thumb_mcp) ==
  [i \in {THUMB_MCP, THUMB_TIP, INDEX_TIP} |->
     CASE i = THUMB_TIP -> <<50, 50, 0>>
       [] i = THUMB_MCP -> thumb_mcp
       [] i = INDEX_TIP -> index_tip]

ThumbHands ==
  {ThumbHand(it, mcp) : it \in {<<53, 50, 0>>, <<56, 50, 0>>},
                        mcp \in {<<50, 70, 0>>, <<50, 40, 0>>}}

(* thumb_index_distance < self.touch_threshold *)
IsTouching(positions) ==
  Dist2(positions[THUMB_TIP], positions[INDEX_TIP])
    < touch_threshold * touch_threshold

(* lines 108-115: the thumb tip is higher than its MCP joint *)
thumb_cursor_or_idle(positions) ==
  IF positions[THUMB_TIP][2] < positions[THUMB_MCP][2]
  THEN "thumb_cursor" ELSE "idle"

_classify_thumb_gesture_no_edge(r, positions, current_time) ==
  LET is_touching == IsTouching(positions)
  IN IF is_touching
     THEN IF current_time - r.last_gesture_time > click_cooldown
          THEN IF current_time - r.last_click_time < double_click_threshold
               THEN [last_click_time |-> 0,
                     last_gesture_time |-> current_time,
                     was_touching |-> is_touching,
                     gesture_type |-> "thumb_index_double_click"]
               ELSE [last_click_time |-> current_time,
                     last_gesture_time |-> current_time,
                     was_touching |-> is_touching,
                     gesture_type |-> "thumb_index_click"]
          ELSE [last_click_time |-> r.last_click_time,
                last_gesture_time |-> r.last_gesture_time,
                was_touching |-> is_touching,
                gesture_type |-> thumb_cursor_or_idle(positions)]
     ELSE [last_click_time |-> r.last_click_time,
           last_gesture_time |-> r.last_gesture_time,
           was_touching |-> is_touching,
           gesture_type |-> thumb_cursor_or_idle(positions)]

_classify_thumb_gesture_no_reset(r, positions, current_time) ==
  LET is_touching == IsTouching(positions)
  IN IF is_touching /\ ~r.was_touching
     THEN IF current_time - r.last_gesture_time > click_cooldown
          THEN IF current_time - r.last_click_time < double_click_threshold
               THEN [last_click_time |-> current_time,
                     last_gesture_time |-> current_time,
                     was_touching |-> is_touching,
                     gesture_type |-> "thumb_index_double_click"]
               ELSE [last_click_time |-> current_time,
                     last_gesture_time |-> current_time,
                     was_touching |-> is_touching,
                     gesture_type |-> "thumb_index_click"]
          ELSE [last_click_time |-> r.last_click_time,
                last_gesture_time |-> r.last_gesture_time,
                was_touching |-> is_touching,
                gesture_type |-> thumb_cursor_or_idle(positions)]
     ELSE [last_click_time |-> r.last_click_time,
           last_gesture_time |-> r.last_gesture_time,
           was_touching |-> is_touching,
           gesture_type |-> thumb_cursor_or_idle(positions)]

_classify_thumb_gesture_keeps_onset(r, positions, current_time) ==
  LET is_touching == IsTouching(positions)
  IN IF is_touching /\ ~r.was_touching
     THEN IF current_time - r.last_gesture_time > click_cooldown
          THEN IF current_time - r.last_click_time < double_click_threshold
               THEN [last_click_time |-> 0,
                     last_gesture_time |-> current_time,
                     was_touching |-> is_touching,
                     gesture_type |-> "thumb_index_double_click"]
               ELSE [last_click_time |-> current_time,
                     last_gesture_time |-> current_time,
                     was_touching |-> is_touching,
                     gesture_type |-> "thumb_index_click"]
          ELSE [last_click_time |-> r.last_click_time,
                last_gesture_time |-> r.last_gesture_time,
                was_touching |-> r.was_touching,
                gesture_type |-> thumb_cursor_or_idle(positions)]
     ELSE [last_click_time |-> r.last_click_time,
           last_gesture_time |-> r.last_gesture_time,
           was_touching |-> is_touching,
           gesture_type |-> thumb_cursor_or_idle(positions)]

(* _classify_thumb_gesture, lines 66-115, on the recognizer's fields r:   *)
(* the new fields and the returned type.  A touch onset within the        *)
(* cooldown falls through to line 106 like a frame without onset           *)
_classify_thumb_gesture(r, positions, current_time) ==
  LET is_touching == IsTouching(positions)
  IN IF is_touching /\ ~r.was_touching
     THEN IF current_time - r.last_gesture_time > click_cooldown
          THEN IF current_time - r.last_click_time < double_click_threshold
               THEN [last_click_time |-> 0,
                     last_gesture_time |-> current_time,
                     was_touching |-> is_touching,
                     gesture_type |-> "thumb_index_double_click"]
               ELSE [last_click_time |-> current_time,
                     last_gesture_time |-> current_time,
                     was_touching |-> is_touching,
                     gesture_type |-> "thumb_index_click"]
          ELSE [last_click_time |-> r.last_click_time,
                last_gesture_time |-> r.last_gesture_time,
                was_touching |-> is_touching,
                gesture_type |-> thumb_cursor_or_idle(positions)]
     ELSE [last_click_time |-> r.last_click_time,
           last_gesture_time |-> r.last_gesture_time,
           was_touching |-> is_touching,
           gesture_type |-> thumb_cursor_or_idle(positions)]

(* get_thumb_position, lines 117-130: x, y of the thumb tip *)
get_thumb_position(landmarks) ==
  IF landmarks = None THEN None
  ELSE <<landmarks[THUMB_TIP][1], landmarks[THUMB_TIP][2]>>

----------------------------------------------------------------------------
(* Actions *)

(* called: the iteration called detect_click_gesture, with landmarks;    *)
(* first: no call was made before; callZ: the index-tip z of the last     *)
(* call made so far (1: none yet); prevCallZ: that of the call before it   *)
NoTest ==
  [kind |-> "none", type |-> "", tap |-> FALSE, stale |-> FALSE,
   called |-> FALSE, first |-> FALSE, landmarks |-> None, callZ |-> 1,
   prevCallZ |-> 1]

(* an iteration that does not call detect_click_gesture *)
TestRec(kind, type) ==
  [kind |-> kind, type |-> type, tap |-> FALSE, stale |-> FALSE,
   called |-> FALSE, first |-> FALSE, landmarks |-> None,
   callZ |-> lastTest.callZ, prevCallZ |-> lastTest.prevCallZ]

(* hand: a hand was found; touching: on the last frame with a hand;      *)
(* onset, held: this frame's touch against the frame with a hand before;  *)
(* nearClick: less than double_click_threshold after a single click;      *)
(* cooled: more than click_cooldown after the last click event; reported: *)
(* the touch in progress has produced a click event; pending: it had not  *)
(* before this frame; prevEvent: the click event before this frame's;     *)
(* nearEvent: less than double_click_threshold after that event            *)
NoThumb ==
  [hand |-> FALSE, type |-> "", touching |-> FALSE, onset |-> FALSE,
   held |-> FALSE, nearClick |-> FALSE, cooled |-> FALSE,
   reported |-> FALSE, pending |-> FALSE, event |-> "", prevEvent |-> "",
   nearEvent |-> FALSE]

ThumbRec(positions, c) ==
  LET touch == IsTouching(positions)
      ev == c.gesture_type \in ClickEvents
  IN [hand |-> TRUE, type |-> c.gesture_type, touching |-> touch,
      onset |-> touch /\ ~lastThumb.touching,
      held |-> touch /\ lastThumb.touching,
      nearClick |-> /\ thumb_recognizer.last_click_time # 0
                    /\ now - thumb_recognizer.last_click_time
                         < double_click_threshold,
      cooled |-> now - thumb_recognizer.last_gesture_time > click_cooldown,
      reported |-> touch /\ (ev \/ (lastThumb.touching /\ lastThumb.reported)),
      pending |-> lastThumb.touching /\ ~lastThumb.reported,
      event |-> IF ev THEN c.gesture_type ELSE lastThumb.event,
      prevEvent |-> lastThumb.event,
      nearEvent |-> /\ lastThumb.event # ""
                    /\ now - thumb_recognizer.last_gesture_time
                         < double_click_threshold]

NoPure ==
  [f |-> "none", arg |-> <<>>, out |-> <<>>, res |-> NoGesture, done |-> FALSE]

InitCtl ==
  /\ mouse_enabled = TRUE
  /\ last_click_time = 0
  /\ dragging = FALSE
  /\ pinch_dragging = FALSE
  /\ pinch_start_time = 0
  /\ now = StartTime
  /\ emitted = <<>>
  /\ raised = FALSE
  /\ lastCall = NoCall
  /\ prevUp = FALSE
  /\ pressed = 0
  /\ lastOnset = 0
  /\ hold = NoHold
  /\ idleRun = NoIdleRun
  /\ rightAge = -1
  /\ pressAge = -1
  /\ is_running = FALSE
  /\ tracking_pc = "idle"
  /\ stop_pc = "idle"
  /\ lastFrame = [kind |-> "none", dispatched |-> FALSE, overlapped |-> FALSE]
  /\ previous_landmarks = None
  /\ test_mouse_enabled = TRUE
  /\ test_pc = "loop"
  /\ baseline_gap = FALSE
  /\ lastTest = NoTest
  /\ thumb_recognizer = NewThumbRecognizer
  /\ lastThumb = NoThumb

Init == InitCtl /\ pure = NoPure

(* time passes between calls *)
Tick ==
  /\ now < MaxTime
  /\ now' = now + 1
  /\ rightAge' = IF rightAge = -1 THEN -1
                 ELSE Min(rightAge + 1, CLICK_HOLD_TIME + 1)
  /\ pressAge' = IF pressAge = -1 THEN -1
                 ELSE Min(pressAge + 1, DOUBLE_CLICK_THRESHOLD)
  /\ UNCHANGED <<callVars, trackVars, testVars, pure, thumbVars>>

(* a caller invokes MouseController.process_gesture(gesture_data, mouse_pos) *)
ProcessGesture ==
  \E g \in Gestures, pos \in Positions :
    /\ HoldGuard(g)
    /\ Commit("process_gesture", g, process_gesture(Self, g, pos, now))
    /\ UNCHANGED <<now, trackVars, testVars, pure, thumbVars>>

Next == ProcessGesture \/ Tick

Spec == Init /\ [][Next]_vars

----------------------------------------------------------------------------
(* TrackingWindow: start() launches tracking_loop on its own thread,      *)
(* stop() runs on the UI thread.  No lock orders the two: a frame is      *)
(* either handled in one step or, for a thumb-index pinch, in two, with   *)
(* the UI thread free to run between them.                                 *)

Start ==
  /\ tracking_pc = "idle"
  /\ is_running' = TRUE
  /\ tracking_pc' = "loop"
  /\ UNCHANGED <<now, ctlVars, stop_pc, lastFrame, testVars, pure, thumbVars>>

(* one iteration of the while loop whose cap.read() succeeded *)
TrackingFrame ==
  /\ tracking_pc = "loop"
  /\ is_running
  /\ \E gesture_data \in RecognizerGestures, mouse_pos \in ThumbPositions :
       /\ HoldGuard(gesture_data)
       /\ IF gesture_data.present
          THEN /\ Commit("process_gesture", gesture_data,
                         process_gesture(Self, gesture_data, mouse_pos, now))
               /\ lastFrame' = [kind |-> "hand", dispatched |-> TRUE,
                                overlapped |-> FALSE]
          ELSE /\ UNCHANGED ctlVars
               /\ lastFrame' = [kind |-> "nohand", dispatched |-> FALSE,
                                overlapped |-> FALSE]
  /\ UNCHANGED <<now, is_running, tracking_pc, stop_pc, testVars, pure, thumbVars>>

(* an iteration with a thumb-index pinch, up to the point where           *)
(* process_gesture (line 50) and handle_left_click_or_drag (line 103)     *)
(* have read mouse_enabled as True                                         *)
TrackingPinchBegin ==
  /\ tracking_pc = "loop"
  /\ is_running
  /\ mouse_enabled
  /\ HoldGuard(Gesture("thumb_index_pinch", Zero))
  /\ tracking_pc' = "pinch_call"
  /\ UNCHANGED <<now, ctlVars, is_running, stop_pc, lastFrame, testVars, pure, thumbVars>>

(* the rest of that call, lines 106-122, on the state as it is by then;   *)
(* the call does not read or write mouse_enabled any more                 *)
TrackingPinchEnd ==
  /\ tracking_pc = "pinch_call"
  /\ \E mouse_pos \in ThumbPositions :
       LET s == handle_left_click_or_drag([Self EXCEPT !.mouse_enabled = TRUE],
                                          mouse_pos, now)
       IN Commit("process_gesture", Gesture("thumb_index_pinch", Zero),
                 [s EXCEPT !.mouse_enabled = mouse_enabled])
  /\ lastFrame' = [kind |-> "hand", dispatched |-> TRUE,
                   overlapped |-> lastCall.op = "set_mouse_enabled"]
  /\ tracking_pc' = "loop"
  /\ UNCHANGED <<now, is_running, stop_pc, testVars, pure, thumbVars>>

(* cap.read() fails: break, then cap.release() *)
TrackingReadFail ==
  /\ tracking_pc = "loop"
  /\ is_running
  /\ tracking_pc' = "done"
  /\ lastFrame' = [kind |-> "readfail", dispatched |-> FALSE,
                   overlapped |-> FALSE]
  /\ UNCHANGED <<now, ctlVars, is_running, stop_pc, testVars, pure, thumbVars>>

TrackingExit_stays_in_loop ==
  /\ tracking_pc = "loop"
  /\ ~is_running
  /\ tracking_pc' = "loop"
  /\ UNCHANGED <<now, ctlVars, is_running, stop_pc, lastFrame, testVars, pure, thumbVars>>

(* the while condition is false: leave the loop, cap.release() *)
TrackingExit ==
  /\ tracking_pc = "loop"
  /\ ~is_running
  /\ tracking_pc' = "done"
  /\ UNCHANGED <<now, ctlVars, is_running, stop_pc, lastFrame, testVars, pure, thumbVars>>

(* stop(), line 246: self.is_running = False *)
Stop ==
  /\ tracking_pc # "idle"
  /\ stop_pc = "idle"
  /\ is_running' = FALSE
  /\ stop_pc' = "disable"
  /\ UNCHANGED <<now, ctlVars, tracking_pc, lastFrame, testVars, pure, thumbVars>>

(* stop(), line 247: self.mouse_controller.set_mouse_enabled(False) *)
StopSetMouseEnabled ==
  /\ stop_pc = "disable"
  /\ Commit("set_mouse_enabled", NoGesture, set_mouse_enabled(Self, FALSE))
  /\ stop_pc' = "done"
  /\ UNCHANGED <<now, is_running, tracking_pc, lastFrame, testVars, pure, thumbVars>>

NextTracking ==
  \/ Start
  \/ TrackingFrame
  \/ TrackingPinchBegin
  \/ TrackingPinchEnd
  \/ TrackingReadFail
  \/ TrackingExit
  \/ Stop
  \/ StopSetMouseEnabled
  \/ Tick

SpecTracking == Init /\ [][NextTracking]_vars

----------------------------------------------------------------------------
(* MouseController driven by direct calls of its methods, as its callers  *)
(* (the loops and the 'm' key of the test script) may make them           *)

Methods ==
  {"process_gesture", "move_mouse", "handle_left_click_or_drag", "left_click",
   "right_click", "double_click", "handle_scroll", "drag_start", "drag_end"}

(* the state after a call of method op on the state Self *)
Call(op, g, pos, a) ==
  CASE op = "process_gesture" -> process_gesture(Self, g, pos, now)
    [] op = "move_mouse" -> move_mouse(Self, pos)
    [] op = "handle_left_click_or_drag" -> handle_left_click_or_drag(Self, pos, now)
    [] op = "left_click" -> left_click(Self, now)
    [] op = "right_click" -> right_click(Self, pos, now)
    [] op = "double_click" -> double_click(Self)
    [] op = "handle_scroll" -> handle_scroll(Self, a)
    [] op = "drag_start" -> drag_start(Self)
    [] op = "drag_end" -> drag_end(Self)

CallMethod ==
  \E op \in Methods \ {"process_gesture"}, pos \in Positions, a \in Angles :
    /\ op \in {"move_mouse", "handle_left_click_or_drag", "right_click"}
         \/ pos = None
    /\ op = "handle_scroll" \/ a = CHOOSE b \in Angles : TRUE
    /\ Commit(op, NoGesture, Call(op, NoGesture, pos, a))
    /\ UNCHANGED <<now, trackVars, testVars, pure, thumbVars>>

SetMouseEnabled ==
  \E enabled \in BOOLEAN :
    /\ Commit("set_mouse_enabled", NoGesture, set_mouse_enabled(Self, enabled))
    /\ UNCHANGED <<now, trackVars, testVars, pure, thumbVars>>

(* time passes between the calls of one short session *)
ControlTick == now < MaxControlTime /\ Tick

NextControl == ProcessGesture \/ CallMethod \/ SetMouseEnabled \/ ControlTick

SpecControl == Init /\ [][NextControl]_vars

(* TrackingWindow as GestureControlApp.start_tracking builds it, with    *)
(* a ThumbGestureRecognizer: one iteration of tracking_loop calls          *)
(* process_frame and, when a hand was found, get_thumb_position and        *)
(* process_gesture                                                         *)
ThumbTrackingFrame ==
  /\ tracking_pc = "loop"
  /\ is_running
  /\ \/ /\ lastThumb' = [lastThumb EXCEPT !.hand = FALSE, !.type = "",
                                           !.onset = FALSE, !.held = FALSE]
        /\ lastFrame' = [kind |-> "nohand", dispatched |-> FALSE,
                         overlapped |-> FALSE]
        /\ UNCHANGED <<ctlVars, thumb_recognizer>>
     \/ \E positions \in ThumbHands :
          LET c == _classify_thumb_gesture(thumb_recognizer, positions, now)
              gesture_data == Gesture(c.gesture_type, Zero)
              mouse_pos == get_thumb_position(positions)
          IN /\ thumb_recognizer' =
                  [last_click_time |-> c.last_click_time,
                   last_gesture_time |-> c.last_gesture_time,
                   was_touching |-> c.was_touching]
             /\ lastThumb' = ThumbRec(positions, c)
             /\ Commit("process_gesture", gesture_data,
                       process_gesture(Self, gesture_data, mouse_pos, now))
             /\ lastFrame' = [kind |-> "hand", dispatched |-> TRUE,
                              overlapped |-> FALSE]
  /\ UNCHANGED <<now, is_running, tracking_pc, stop_pc, testVars, pure>>

NextThumb ==
  \/ Start
  \/ ThumbTrackingFrame
  \/ Tick

SpecThumb == Init /\ [][NextThumb]_vars

(* The tracking thread is a running thread: it is not suspended for ever, *)
(* so a step of it that stays possible is eventually taken, and every     *)
(* camera read and pyautogui call it makes returns.  A tracking thread    *)
(* that has not been stopped may still go on reading frames for ever.     *)
TrackingThreadRuns == WF_vars(TrackingExit) /\ WF_vars(TrackingPinchEnd)

NextTrackingFair ==
  \/ Start
  \/ TrackingFrame
  \/ TrackingPinchBegin
  \/ TrackingPinchEnd
  \/ TrackingReadFail
  \/ TrackingExit
  \/ Stop
  \/ StopSetMouseEnabled
  \/ ControlTick

SpecTrackingFair ==
  Init /\ [][NextTrackingFair]_vars /\ TrackingThreadRuns

----------------------------------------------------------------------------
(* The loop of test_hand_gestures.main: one frame per iteration, the keys *)
(* 'm' and 'q' read at its end                                             *)

(* the hands shown to the camera: pointing with the index finger, a fist  *)
(* and a thumb-index pinch, the index tip at three depths                 *)
TestHands ==
  {Hand(<<50, 70, 0>>, 45, <<it[1], it[2], z>>, <<50, 70, 0>>,
        [k \in 1..4 |-> IF k = 1 THEN it[3] ELSE 20]) :
     it \in {<<50, 30, 80>>, <<50, 70, 20>>, <<51, 51, 20>>},
     z \in {0, -5, -10}}

(* process_frame found no hand: gesture_data is None and the body of     *)
(* `if gesture_data:` is skipped                                           *)
TestFrameNoHand ==
  /\ test_pc = "loop"
  /\ baseline_gap' = (previous_landmarks # None)
  /\ lastTest' = TestRec("nohand", "")
  /\ UNCHANGED <<now, ctlVars, trackVars, previous_landmarks,
                 test_mouse_enabled, test_pc, pure, thumbVars>>

(* a frame with a hand while mouse control is off: only drawn and printed *)
TestFrameOff ==
  /\ test_pc = "loop"
  /\ ~test_mouse_enabled
  /\ \E landmarks \in TestHands :
       lastTest' = TestRec("off", _classify_gesture(landmarks).type)
  /\ UNCHANGED <<now, ctlVars, trackVars, previous_landmarks,
                 test_mouse_enabled, test_pc, baseline_gap, pure, thumbVars>>

(* a frame with a hand while mouse control is on, lines 85-101 up to the  *)
(* call of left_click; an exception of process_gesture is caught at line  *)
(* 116 and ends the iteration                                              *)
TestFrame ==
  /\ test_pc = "loop"
  /\ test_mouse_enabled
  /\ \E landmarks \in TestHands :
       LET gesture_data == _classify_gesture(landmarks)
           mouse_pos == get_mouse_position(landmarks)
           s == IF gesture_data.type = "index_finger_point" /\ mouse_pos # None
                THEN process_gesture(Self, gesture_data, mouse_pos, now)
                ELSE process_gesture(Self, gesture_data, None, now)
           d == detect_click_gesture(previous_landmarks, landmarks)
       IN /\ HoldGuard(gesture_data)
          /\ Commit("process_gesture", gesture_data, s)
          /\ IF s.raised
             THEN /\ lastTest' = TestRec("hand", gesture_data.type)
                  /\ UNCHANGED <<previous_landmarks, baseline_gap, test_pc>>
             ELSE /\ previous_landmarks' = d.previous_landmarks
                  /\ baseline_gap' = FALSE
                  /\ test_pc' = IF d.click_gesture = "tap" THEN "tap" ELSE "loop"
                  /\ lastTest' = [kind |-> "hand", type |-> gesture_data.type,
                                  tap |-> d.click_gesture = "tap",
                                  stale |-> previous_landmarks # None /\ baseline_gap,
                                  called |-> TRUE,
                                  first |-> lastTest.callZ = 1,
                                  landmarks |-> landmarks,
                                  callZ |-> landmarks[INDEX_TIP][3],
                                  prevCallZ |-> lastTest.callZ]
  /\ UNCHANGED <<now, trackVars, test_mouse_enabled, pure, thumbVars>>

(* lines 99-101: mouse_controller.left_click() after a tap *)
TestTapClick ==
  /\ test_pc = "tap"
  /\ Commit("left_click", NoGesture, left_click(Self, now))
  /\ test_pc' = "loop"
  /\ UNCHANGED <<now, trackVars, previous_landmarks, test_mouse_enabled,
                 baseline_gap, lastTest, pure, thumbVars>>

(* key 'm': toggle mouse control *)
TestToggle ==
  /\ test_pc = "loop"
  /\ test_mouse_enabled' = ~test_mouse_enabled
  /\ Commit("set_mouse_enabled", NoGesture,
            set_mouse_enabled(Self, ~test_mouse_enabled))
  /\ UNCHANGED <<now, trackVars, previous_landmarks, test_pc, baseline_gap,
                 lastTest, pure, thumbVars>>

(* key 'q' or a failed cap.read(): break *)
TestQuit ==
  /\ test_pc = "loop"
  /\ test_pc' = "done"
  /\ UNCHANGED <<now, ctlVars, trackVars, previous_landmarks,
                 test_mouse_enabled, baseline_gap, lastTest, pure, thumbVars>>

NextTest ==
  \/ TestFrameNoHand
  \/ TestFrameOff
  \/ TestFrame
  \/ TestTapClick
  \/ TestToggle
  \/ TestQuit
  \/ ControlTick

SpecTest == Init /\ [][NextTest]_vars

----------------------------------------------------------------------------
(* Single functions applied to inputs drawn from bounded sets *)

Coords == {-150, -1, 0, 1, 50, 99, 100, 101, 150}

ScrollAngles ==
  {<<n, 100>> : n \in {-100, -50, -34, -33, -17, -16, -15, 0,
                        15, 16, 17, 33, 34, 50, 100}}

ThumbMcp == <<50, 50>>

ThumbTips == {<<x, y>> : x \in {40, 50, 60},
                         y \in {30, 40, 45, 48, 50, 52, 55, 60, 70}}

FingerTips ==
  {<<51, 51, 0>>, <<52, 52, 3>>, <<54, 50, 0>>, <<50, 30, 0>>, <<50, 70, 0>>}

ThumbMcps == {<<50, 70, 0>>, <<60, 52, 0>>, <<50, 30, 0>>, <<50, 50, 0>>}

LandmarkSets ==
  {Hand(mcp, ipy, it, mt, py) :
     mcp \in ThumbMcps, ipy \in {45, 55}, it \in FingerTips, mt \in FingerTips,
     py \in [1..4 -> {20, 80}]}

PureInput(f, arg) ==
  [f |-> f, arg |-> arg, out |-> <<>>, res |-> NoGesture, done |-> FALSE]

PureInputs ==
  {PureInput("move_mouse", <<x, y>>) : x \in Coords, y \in Coords}
    \cup {PureInput("handle_scroll", a) : a \in ScrollAngles}
    \cup {PureInput("thumb", tip) : tip \in ThumbTips}
    \cup {PureInput("_classify_gesture", p) : p \in LandmarkSets}

InitPure == InitCtl /\ pure \in PureInputs

ApplyMoveMouse ==
  /\ pure.f = "move_mouse" /\ ~pure.done
  /\ pure' = [pure EXCEPT !.out = move_mouse(Self, pure.arg).out,
                          !.done = TRUE]
  /\ UNCHANGED otherVars

ApplyHandleScroll ==
  /\ pure.f = "handle_scroll" /\ ~pure.done
  /\ pure' = [pure EXCEPT !.out = handle_scroll(Self, pure.arg).out,
                          !.done = TRUE]
  /\ UNCHANGED otherVars

(* a frame whose only extended finger is the thumb, classified and then   *)
(* dispatched with the thumb tip as the pointer position                  *)
ApplyThumbFrame ==
  /\ pure.f = "thumb" /\ ~pure.done
  /\ pure' = [pure EXCEPT
                !.out = process_gesture(Self,
                          classify_thumb_only(pure.arg, ThumbMcp),
                          pure.arg, now).out,
                !.done = TRUE]
  /\ UNCHANGED otherVars

ApplyClassifyGesture ==
  /\ pure.f = "_classify_gesture" /\ ~pure.done
  /\ pure' = [pure EXCEPT !.res = _classify_gesture(pure.arg), !.done = TRUE]
  /\ UNCHANGED otherVars

NextPure ==
  ApplyMoveMouse \/ ApplyHandleScroll \/ ApplyThumbFrame \/ ApplyClassifyGesture

SpecPure == InitPure /\ [][NextPure]_vars

----------------------------------------------------------------------------
(* Claims *)

IsProcess(c) == c.op = "process_gesture"

(* C1: a run of process_gesture calls that ends with an Idle (no hand)    *)
(* call has emitted as many ButtonDown as ButtonUp                         *)
C1_NoUnmatchedPressAfterIdle == IsIdle(lastCall) => pressed = 0

(* C2: an Idle call made while a pinch-drag or a fist-drag is active      *)
(* emits ButtonUp and leaves neither drag flag set; an Idle call made     *)
(* while no drag is active emits nothing                                   *)
C2_IdleReleasesAnyDrag ==
  IsIdle(lastCall) =>
    IF lastCall.prePinch \/ lastCall.preDrag
    THEN Has(emitted, "ButtonUp") /\ ~dragging /\ ~pinch_dragging
    ELSE emitted = <<>>

(* C3: at most one button press is outstanding in every reachable state   *)
C3_AtMostOnePressOutstanding == pressed <= 1

(* C4: tracking_loop hands every processed frame to the dispatcher, also  *)
(* a frame without a hand, so the ButtonDown of a pinch-drag is matched   *)
(* by a ButtonUp no later than the first no-hand frame                     *)
C4_NoHandFrameReleasesPinchDrag ==
  lastFrame.kind = "nohand" /\ ~dragging => pressed = 0

C6_SecondPressIsOneDoubleClick ==
  IsPinch(lastCall) /\ hold.gap = "within" /\ hold.prevPress
    /\ ~hold.onsetPinch =>
    hold.dc = 1 /\ hold.down = 0 /\ ~pinch_dragging

(* C7: a second index-pinch press that starts more than the double-click  *)
(* window after a first press finds the first press released and emits    *)
(* exactly ButtonDown, no DoubleClick                                      *)
C7_SeparatePressesAreSeparateCycles ==
  hold.gap = "beyond" /\ hold.prevPress =>
    ~hold.onsetPinch /\ hold.onsetOut = <<ButtonDown>> /\ hold.dc = 0

(* C8: an index-pinch frame that emits DoubleClick resets last_click_time *)
(* to 0                                                                    *)
C8_DoubleClickResetsLastClickTime ==
  IsPinch(lastCall) /\ Has(emitted, "DoubleClick") => last_click_time = 0

(* C9: a call made while a pinch-drag is active, with a gesture other     *)
(* than thumb_index_pinch (thumb_scroll included), emits ButtonUp and     *)
(* clears pinch_dragging                                                   *)
C9_OtherGestureEndsPinchDrag ==
  IsProcess(lastCall) /\ lastCall.prePinch
    /\ lastCall.kind \notin {"thumb_index_pinch", "None"} =>
      Has(emitted, "ButtonUp") /\ ~pinch_dragging

C11_PinchHoldThenIdle ==
  hold.outside =>
    /\ hold.onsetOut = <<ButtonDown>>
    /\ hold.down = 1
    /\ hold.rest \subseteq {"Move"}
    /\ IsIdle(lastCall) /\ lastCall.prev = "thumb_index_pinch" =>
         emitted = <<ButtonUp>> /\ ~pinch_dragging

(* C12: move_mouse moves to a pixel inside [0, screen_width-1] x          *)
(* [0, screen_height-1] for every position: the right or bottom edge for  *)
(* a coordinate of 1.0 or more, the left or top edge for 0 or less        *)
C12_MoveClampedToScreen ==
  pure.f = "move_mouse" /\ pure.done =>
    /\ Len(pure.out) = 1
    /\ pure.out[1].a = "Move"
    /\ pure.out[1].x \in 0..(ScreenWidth - 1)
    /\ pure.out[1].y \in 0..(ScreenHeight - 1)
    /\ pure.arg[1] >= 100 => pure.out[1].x = ScreenWidth - 1
    /\ pure.arg[1] <= 0 => pure.out[1].x = 0
    /\ pure.arg[2] >= 100 => pure.out[1].y = ScreenHeight - 1
    /\ pure.arg[2] <= 0 => pure.out[1].y = 0

C12_OneAndBeyondClamped ==
  /\ pure.f = "move_mouse" /\ pure.done
  /\ pure.arg = <<100, 150>>
  /\ pure.out = <<Move(ScreenWidth - 1, ScreenHeight - 1)>>

(* C13: process_gesture never raises, whatever gesture_data it is given   *)
C13_NeverRaises == IsProcess(lastCall) => ~raised

(* C14: from every reachable state a call with an unrecognized gesture    *)
(* type yields the same emissions and the same controller state as an     *)
(* Idle call                                                               *)
C14_UnknownTypeActsAsIdle ==
  \A pos \in Positions :
    process_gesture(Self, Gesture("peace_sign", Zero), pos, now)
      = process_gesture(Self, NoGesture, pos, now)

C14_UnknownTypeEndedPinchDrag ==
  /\ IsProcess(lastCall)
  /\ lastCall.kind = "peace_sign"
  /\ lastCall.prePinch
  /\ emitted = <<ButtonUp>>
  /\ ~pinch_dragging

(* C15: a Fist frame that follows a Fist frame emits no ButtonDown        *)
C15_FistRunPressesOnce ==
  IsProcess(lastCall) /\ lastCall.kind = "fist" /\ lastCall.prev = "fist" =>
    ~Has(emitted, "ButtonDown")

C15_SecondFistFrame ==
  /\ IsProcess(lastCall)
  /\ lastCall.kind = "fist" /\ lastCall.prev = "fist"
  /\ dragging
  /\ pressed = 1
  /\ emitted = <<>>

C17_OpenHandReleasesOnce ==
  IsProcess(lastCall) /\ lastCall.kind = "open_hand" =>
    /\ emitted = IF lastCall.prePinch \/ lastCall.preDrag
                 THEN <<ButtonUp>> ELSE <<>>
    /\ ~dragging /\ ~pinch_dragging

(* C18: a middle pinch emits RightClick only when at least                *)
(* CLICK_HOLD_TIME has passed since last_click_time, hence since the      *)
(* RightClick before, and it emits no ButtonDown and sets no drag flag    *)
C18_RightClickDebounced ==
  IsProcess(lastCall) /\ lastCall.kind = "thumb_middle_pinch" =>
    /\ Has(emitted, "RightClick") =>
         /\ lastCall.sinceClick >= CLICK_HOLD_TIME
         /\ lastCall.rightGap = -1 \/ lastCall.rightGap >= CLICK_HOLD_TIME
    /\ ~Has(emitted, "ButtonDown")
    /\ ~pinch_dragging
    /\ dragging = lastCall.preDrag

C18_SecondRightClick ==
  /\ IsProcess(lastCall)
  /\ lastCall.kind = "thumb_middle_pinch"
  /\ emitted = <<RightClick>>
  /\ lastCall.rightGap > CLICK_HOLD_TIME

(* C19: through _get_thumb_angle, the thumb_scroll symbol and             *)
(* handle_scroll, a thumb tip above its reference joint (smaller y)       *)
(* scrolls by a positive delta and a thumb tip below it by a negative one *)
C19_UpwardScrollsPositive ==
  pure.f = "thumb" /\ pure.done =>
    \A i \in DOMAIN pure.out :
      pure.out[i].a = "Scroll" =>
        /\ pure.arg[2] < ThumbMcp[2] => pure.out[i].x > 0
        /\ pure.arg[2] > ThumbMcp[2] => pure.out[i].x < 0
        /\ pure.arg[2] # ThumbMcp[2]

C19_UpwardThumbScrolledUp ==
  /\ pure.f = "thumb" /\ pure.done
  /\ pure.arg[2] < ThumbMcp[2]
  /\ Len(pure.out) = 1
  /\ pure.out[1].a = "Scroll"
  /\ pure.out[1].x > 0

(* Python's round(): n / d rounded to the nearest integer, ties to even   *)
PyRound(n, d) ==
  LET lo == IF n >= 0 THEN n \div d ELSE -(((-n) + d - 1) \div d)
      twice == 2 * (n - lo * d)
  IN IF twice < d THEN lo
     ELSE IF twice > d THEN lo + 1
     ELSE IF lo % 2 = 0 THEN lo ELSE lo + 1

(* C20 as stated: the Scroll emitted for a payload v has the delta        *)
(* -round(v * scroll_sensitivity)                                          *)
C20_ScrollIsRoundedProduct ==
  pure.f = "handle_scroll" /\ pure.done /\ pure.out # <<>> =>
    pure.out = <<Scroll(-PyRound(pure.arg[1] * SCROLL_SENSITIVITY, pure.arg[2]))>>

(* C20 as amended: the delta is v * scroll_sensitivity * 2 truncated      *)
(* toward zero and negated, and nothing is emitted when that is 0         *)
C20_ScrollIsTruncatedDoubledProduct ==
  pure.f = "handle_scroll" /\ pure.done =>
    LET m == Abs(pure.arg[1]) * SCROLL_SENSITIVITY * 2
        d == pure.arg[2]
    IN IF m < d THEN pure.out = <<>>
       ELSE /\ Len(pure.out) = 1
            /\ pure.out[1].a = "Scroll"
            /\ Abs(pure.out[1].x) * d <= m
            /\ m < (Abs(pure.out[1].x) + 1) * d
            /\ pure.arg[1] > 0 <=> pure.out[1].x < 0

C20_HalfScrollsByThree ==
  /\ pure.f = "handle_scroll" /\ pure.done
  /\ pure.arg = <<50, 100>>
  /\ pure.out = <<Scroll(-3)>>

(* C21: handle_scroll never emits Scroll(0), and emits nothing at all when *)
(* the scaled angle, angle * SCROLL_SENSITIVITY * 2, is below 1 in         *)
(* magnitude                                                                *)
C21_SmallScrollSuppressed ==
  pure.f = "handle_scroll" /\ pure.done =>
    /\ Scroll(0) \notin {pure.out[i] : i \in DOMAIN pure.out}
    /\ Abs(pure.arg[1]) * SCROLL_SENSITIVITY * 2 < pure.arg[2] => pure.out = <<>>

C21_JitterDropped ==
  /\ pure.f = "handle_scroll" /\ pure.done
  /\ pure.arg = <<16, 100>>
  /\ pure.out = <<>>

(* the landmark set of a classification and what it measures *)
IsClassified == pure.f = "_classify_gesture" /\ pure.done

IndexPinched ==
  Dist2(pure.arg[THUMB_TIP], pure.arg[INDEX_TIP]) < PINCH_THRESHOLD * PINCH_THRESHOLD

MiddlePinched ==
  Dist2(pure.arg[THUMB_TIP], pure.arg[MIDDLE_TIP]) < PINCH_THRESHOLD * PINCH_THRESHOLD

Extended ==
  {f \in {<<THUMB_TIP, THUMB_IP>>, <<INDEX_TIP, INDEX_PIP>>,
           <<MIDDLE_TIP, MIDDLE_PIP>>, <<RING_TIP, RING_PIP>>,
           <<PINKY_TIP, PINKY_PIP>>} : pure.arg[f[1]][2] < pure.arg[f[2]][2]}

(* C22: a landmark set whose thumb tip and index tip are closer than the  *)
(* pinch threshold is classified thumb_index_pinch whatever the other     *)
(* fingers do; failing that, a middle pinch is classified                  *)
(* thumb_middle_pinch before scroll and finger count are looked at        *)
C22_IndexPinchFirst ==
  IsClassified =>
    /\ IndexPinched => pure.res = Gesture("thumb_index_pinch", Zero)
    /\ ~IndexPinched /\ MiddlePinched =>
         pure.res = Gesture("thumb_middle_pinch", Zero)

C22_BothPinchesCoexist ==
  /\ IsClassified
  /\ IndexPinched /\ MiddlePinched
  /\ Cardinality(Extended) = 5
  /\ pure.res.type = "thumb_index_pinch"

(* C23 as stated: without a pinch the result is fist for no extended      *)
(* finger, open_hand for five and cursor_point for every other count      *)
C23_CountAloneDecides ==
  IsClassified /\ ~IndexPinched /\ ~MiddlePinched =>
    pure.res.type = IF Cardinality(Extended) = 0 THEN "fist"
                    ELSE IF Cardinality(Extended) = 5 THEN "open_hand"
                    ELSE "cursor_point"

(* C23 as amended: the same, except that a hand whose only extended       *)
(* finger is the thumb and whose thumb angle exceeds                       *)
(* SCROLL_ANGLE_THRESHOLD in magnitude is classified thumb_scroll          *)
C23_CountDecidesButThumbScroll ==
  IsClassified /\ ~IndexPinched /\ ~MiddlePinched =>
    LET thumb_angle == _get_thumb_angle(pure.arg[THUMB_TIP], pure.arg[THUMB_MCP])
    IN IF Extended = {<<THUMB_TIP, THUMB_IP>>} /\ ExceedsScrollThreshold(thumb_angle)
       THEN pure.res = Gesture("thumb_scroll", thumb_angle)
       ELSE pure.res.type = IF Cardinality(Extended) = 0 THEN "fist"
                            ELSE IF Cardinality(Extended) = 5 THEN "open_hand"
                            ELSE "cursor_point"

C23_FourFingersPoint ==
  /\ IsClassified /\ ~IndexPinched /\ ~MiddlePinched
  /\ Cardinality(Extended) = 4
  /\ pure.res.type = "cursor_point"

C26_StopNeverOverlapsCall ==
  ~(tracking_pc = "pinch_call" /\ lastCall.op = "set_mouse_enabled")

(* C27: when stop() has run while a process_gesture call was in progress  *)
(* and the tracking thread has left its loop, every mouseDown has its     *)
(* mouseUp and both drag flags are False                                   *)
C27_NoButtonLeftPressedAfterStop ==
  tracking_pc = "done" /\ stop_pc = "done" /\ lastFrame.overlapped =>
    pressed = 0 /\ ~dragging /\ ~pinch_dragging

(* C29: set_mouse_enabled(False), called while a fist-drag or a           *)
(* pinch-drag is active, emits a mouseUp for it and leaves both dragging  *)
(* and pinch_dragging False                                                *)
C29_DisableReleasesEveryPress ==
  lastCall.op = "set_mouse_enabled" /\ ~mouse_enabled =>
    /\ lastCall.preDrag \/ lastCall.prePinch => Has(emitted, "ButtonUp")
    /\ Count(emitted, "ButtonUp") =
         (IF lastCall.preDrag THEN 1 ELSE 0) + (IF lastCall.prePinch THEN 1 ELSE 0)
    /\ ~dragging /\ ~pinch_dragging

(* C30: a method called while mouse_enabled is False emits nothing, but   *)
(* for the ButtonUp with which process_gesture ends an active pinch-drag  *)
C30_DisabledEmitsNothing ==
  lastCall.op \in Methods /\ ~mouse_enabled =>
    \/ emitted = <<>>
    \/ /\ emitted = <<ButtonUp>>
       /\ lastCall.op = "process_gesture"
       /\ lastCall.prePinch

C30_DisabledFistIgnored ==
  /\ lastCall.op = "process_gesture" /\ lastCall.kind = "fist"
  /\ ~mouse_enabled
  /\ emitted = <<>>
  /\ ~dragging

(* C24: a frame without a hand resets previous_landmarks, so that the    *)
(* first frame after the hand reappears is not compared with landmarks    *)
(* from before the gap                                                     *)
C24_NoHandClearsBaseline ==
  /\ lastTest.kind = "nohand" => previous_landmarks = None
  /\ ~lastTest.stale

(* C28: when mouse control is on and a frame is classified as pointing    *)
(* (cursor_point), the loop's process_gesture call moves the pointer      *)
C28_PointingMovesPointer ==
  /\ lastTest.kind = "hand" /\ lastTest.type = "cursor_point"
  /\ lastCall.op = "process_gesture"
  => ~raised /\ Has(emitted, "Move")

(* C31: an index pinch emits DoubleClick only if the ButtonDown of an     *)
(* earlier index pinch was emitted less than DOUBLE_CLICK_THRESHOLD       *)
(* before; a RightClick, a simple click or the initial state does not     *)
(* turn an index pinch into a DoubleClick                                  *)
C31_DoubleClickNeedsEarlierPress ==
  IsPinch(lastCall) /\ Has(emitted, "DoubleClick") =>
    lastCall.pressGap < DOUBLE_CLICK_THRESHOLD

(* C32: once stop() has set is_running to False the tracking thread      *)
(* begins no further frame, and it eventually leaves tracking_loop and    *)
(* releases the camera                                                     *)
C32_StopEndsTrackingLoop ==
  /\ [][~is_running /\ tracking_pc = "loop"
          => tracking_pc' \in {"loop", "done"} /\ lastFrame' = lastFrame]_vars
  /\ (stop_pc # "idle") ~> (tracking_pc = "done")

C32_LoopLeftAfterStopInMidFrame ==
  stop_pc = "done" /\ tracking_pc = "done" /\ lastFrame.overlapped

(* C33: with a ThumbGestureRecognizer wired to MouseController through    *)
(* TrackingWindow every gesture type of the recognizer becomes a pointer  *)
(* action: thumb_cursor moves the pointer, thumb_index_click clicks,      *)
(* thumb_index_double_click double-clicks                                  *)
C33_ThumbTypesMappedToActions ==
  lastThumb.hand =>
    /\ lastThumb.type = "thumb_cursor" => Has(emitted, "Move")
    /\ lastThumb.type = "thumb_index_click" => Has(emitted, "Click")
    /\ lastThumb.type = "thumb_index_double_click"
         => Has(emitted, "DoubleClick")

(* C34: ThumbGestureRecognizer returns a click event only on a frame on   *)
(* which the touch begins; a frame on which it is held returns none        *)
C34_ClickEventOnlyOnOnset ==
  lastThumb.hand /\ lastThumb.type \in ClickEvents => lastThumb.onset

C34_HeldTouchAfterClickEvent ==
  /\ lastThumb.hand /\ lastThumb.held /\ lastThumb.reported
  /\ lastThumb.type \notin ClickEvents

(* C35: a touch onset within double_click_threshold of the previous       *)
(* single click yields thumb_index_double_click and resets last_click_time *)
(* to 0                                                                    *)
C35_OnsetNearClickIsDoubleClick ==
  lastThumb.hand /\ lastThumb.onset /\ lastThumb.nearClick =>
    /\ lastThumb.type = "thumb_index_double_click"
    /\ thumb_recognizer.last_click_time = 0

(* C35 amended: such an onset yields the double-click when it also lies   *)
(* more than click_cooldown after the last click event, and the click     *)
(* event before a double-click is always a single click, so the event     *)
(* after a double-click is a thumb_index_click                             *)
C35_DoubleClickOnlyAfterSingleClick ==
  /\ lastThumb.hand /\ lastThumb.onset /\ lastThumb.nearClick
       /\ lastThumb.cooled
     => /\ lastThumb.type = "thumb_index_double_click"
        /\ thumb_recognizer.last_click_time = 0
  /\ lastThumb.hand /\ lastThumb.type = "thumb_index_double_click"
     => lastThumb.prevEvent = "thumb_index_click"

C35_ClickSoonAfterDoubleClick ==
  /\ lastThumb.hand /\ lastThumb.onset /\ lastThumb.nearEvent
  /\ lastThumb.prevEvent = "thumb_index_double_click"
  /\ lastThumb.type = "thumb_index_click"

(* C36: a touch whose onset fell inside click_cooldown is reported by a   *)
(* click event once the cooldown has passed and the touch is still held   *)
C36_DroppedOnsetReportedLater ==
  lastThumb.hand /\ lastThumb.held /\ lastThumb.pending /\ lastThumb.cooled
    => lastThumb.type \in ClickEvents

(* C36 amended: an onset more than click_cooldown after the last click    *)
(* event produces a click event on its own frame; an onset inside the     *)
(* cooldown produces none, on that frame or while the touch is held        *)
C36_OnsetInCooldownDropped ==
  /\ lastThumb.hand /\ lastThumb.onset /\ lastThumb.cooled
     => lastThumb.type \in ClickEvents
  /\ lastThumb.hand /\ lastThumb.onset /\ ~lastThumb.cooled
     => lastThumb.type \notin ClickEvents /\ ~lastThumb.reported
  /\ lastThumb.hand /\ lastThumb.held /\ lastThumb.pending
     => lastThumb.type \notin ClickEvents /\ ~lastThumb.reported

C36_HeldPastCooldownUnreported ==
  /\ lastThumb.hand /\ lastThumb.held /\ lastThumb.pending
  /\ lastThumb.cooled /\ lastThumb.type \notin ClickEvents

(* the thumb direction vector (thumb tip minus thumb MCP, x and y) is     *)
(* shorter than 0.01                                                       *)
ThumbVectorDegenerate(tip, mcp) ==
  (tip[1] - mcp[1]) * (tip[1] - mcp[1])
    + (tip[2] - mcp[2]) * (tip[2] - mcp[2]) < 1

(* C37: when the thumb direction vector is shorter than 0.01,             *)
(* _get_thumb_angle returns 0 and the frame is not classified as a scroll  *)
C37_DegenerateThumbIsNoScroll ==
  /\ IsClassified
       /\ ThumbVectorDegenerate(pure.arg[THUMB_TIP], pure.arg[THUMB_MCP])
     => /\ _get_thumb_angle(pure.arg[THUMB_TIP], pure.arg[THUMB_MCP]) = Zero
        /\ pure.res.type # "thumb_scroll"
  /\ pure.f = "thumb" /\ pure.done /\ ThumbVectorDegenerate(pure.arg, ThumbMcp)
     => ~Has(pure.out, "Scroll")

C37_DegenerateThumbAloneUp ==
  /\ IsClassified
  /\ ThumbVectorDegenerate(pure.arg[THUMB_TIP], pure.arg[THUMB_MCP])
  /\ Extended = {<<THUMB_TIP, THUMB_IP>>}
  /\ ~IndexPinched /\ ~MiddlePinched
  /\ pure.res = Gesture("cursor_point", Zero)

(* C38: detect_click_gesture returns None on its first call; on a later  *)
(* call it returns "tap" exactly when the index-tip z is more than 0.05   *)
(* below that of the call before; every call makes its landmarks the      *)
(* baseline                                                                *)
C38_TapAgainstPrecedingCall ==
  lastTest.called =>
    /\ previous_landmarks = lastTest.landmarks
    /\ lastTest.first => ~lastTest.tap
    /\ ~lastTest.first =>
         (lastTest.tap <=> lastTest.callZ - lastTest.prevCallZ < -TapDepth)

C38_NoTapAtExactlyTapDepth ==
  /\ lastTest.called /\ ~lastTest.first /\ ~lastTest.tap
  /\ lastTest.callZ - lastTest.prevCallZ = -TapDepth
  /\ previous_landmarks = lastTest.landmarks

(* C39: pinch_start_time is non-zero exactly when pinch_dragging is True *)
C39_StartTimeSetIffPinchDragging ==
  (pinch_start_time # 0) <=> pinch_dragging

C39_PinchDragEnded ==
  /\ lastCall.prePinch /\ lastCall.up
  /\ ~pinch_dragging /\ pinch_start_time = 0

====
